---- MODULE Spec2Model ----
(***************************************************************************)
(* A model of the pngme chunk codec: ChunkType (src/src/chunk_type.rs) and *)
(* Chunk (src/src/chunk.rs).  Bytes are the integers 0..255, byte arrays   *)
(* and slices are sequences (index i of the source is index i+1 here).     *)
(***************************************************************************)
EXTENDS Integers, Sequences, FiniteSets, TLC

VARIABLES pc, s, raw, type_result, chunk, measured, encoded, value, decoded

vars == <<pc, s, raw, type_result, chunk, measured, encoded, value, decoded>>

(***************************************************************************)
(* Bounds of the explored inputs.                                          *)
(***************************************************************************)
MaxStrLen == 5
MaxDataLen == 2
MaxTrailing == 1

(***************************************************************************)
(* Integer helpers.  A u32 is the pair <<hi, lo>> of its 16-bit halves     *)
(* (value hi * 2^16 + lo); a u8 and a small usize are plain integers.      *)
(***************************************************************************)
RECURSIVE BitXor(_, _, _)
BitXor(a, b, n) ==
    IF n = 0 THEN 0
    ELSE ((a + b) % 2) + 2 * BitXor(a \div 2, b \div 2, n - 1)

\* xor of two 4-bit values, tabulated
XorNibble == [a \in 0..15 |-> [b \in 0..15 |-> BitXor(a, b, 4)]]

Xor8(a, b) ==
    XorNibble[a % 16][b % 16] + 16 * XorNibble[a \div 16][b \div 16]

Xor16(a, b) == Xor8(a % 256, b % 256) + 256 * Xor8(a \div 256, b \div 256)

Xor32(a, b) == << Xor16(a[1], b[1]), Xor16(a[2], b[2]) >>

Shr32(a, k) == << a[1] \div (2 ^ k), (a[1] % (2 ^ k)) * (2 ^ (16 - k)) + a[2] \div (2 ^ k) >>

\* `n as u32` for a usize n: the low 32 bits
as_u32(n) == << (n \div 65536) % 65536, n % 65536 >>

\* a byte-swapped u32::to_be_bytes
to_le_bytes(u) == << u[2] % 256, u[2] \div 256, u[1] % 256, u[1] \div 256 >>

\* u32::to_be_bytes
to_be_bytes(u) == << u[1] \div 256, u[1] % 256, u[2] \div 256, u[2] % 256 >>

\* u32::from_be_bytes
from_be_bytes(b) == << b[1] * 256 + b[2], b[3] * 256 + b[4] >>

(***************************************************************************)
(* CRC-32/ISO-HDLC: width 32, poly 0x04C11DB7 reflected (0xEDB88320),      *)
(* init 0xFFFFFFFF, xorout 0xFFFFFFFF, table driven, one byte per step.    *)
(***************************************************************************)
CrcPolyReflected == << 60856, 33568 >>

CrcAllOnes == << 65535, 65535 >>

RECURSIVE CrcTableEntry(_, _)
CrcTableEntry(c, k) ==
    IF k = 0 THEN c
    ELSE CrcTableEntry(IF c[2] % 2 = 1
                       THEN Xor32(Shr32(c, 1), CrcPolyReflected)
                       ELSE Shr32(c, 1), k - 1)

CrcTable == [i \in 0..255 |-> CrcTableEntry(<< 0, i >>, 8)]

U32Values == (0..65535) \X (0..65535)

\* one byte: crc = table[(crc as u8) ^ byte] ^ (crc >> 8)
CrcStep[c \in U32Values, b \in 0..255] ==
    Xor32(CrcTable[Xor8(c[2] % 256, b)], Shr32(c, 8))

\* the bytes lo..hi of a slice, fed in order
CrcUpdate[c \in U32Values, slice \in Seq(0..255), lo \in Nat, hi \in Nat] ==
    IF lo > hi THEN c
    ELSE IF lo = hi THEN CrcStep[c, slice[lo]]
    ELSE CrcUpdate[CrcUpdate[c, slice, lo, (lo + hi) \div 2],
                   slice, (lo + hi) \div 2 + 1, hi]

\* a CRC-32 that leaves out the final xor
checksum_no_xorout(slice) == CrcUpdate[CrcAllOnes, slice, 1, Len(slice)]

\* IEEE.checksum(&bytes)
checksum(slice) == Xor32(CrcUpdate[CrcAllOnes, slice, 1, Len(slice)], CrcAllOnes)

(***************************************************************************)
(* ChunkType: a 4-byte array.                                              *)
(***************************************************************************)
is_ascii_uppercase(byte) == byte \in 65..90

is_ascii_lowercase(byte) == byte \in 97..122

is_valid_byte(byte) == is_ascii_uppercase(byte) \/ is_ascii_lowercase(byte)

bytes(t) == << t[1], t[2], t[3], t[4] >>

is_critical(t) == is_ascii_uppercase(t[1])

is_public(t) == is_ascii_uppercase(t[2])

is_reserved_bit_valid(t) == is_ascii_uppercase(t[3])

is_safe_to_copy(t) == is_ascii_lowercase(t[4])

\* is_valid without the reserved-bit check
is_valid_letters_only(t) == \A i \in 1..Len(t) : is_valid_byte(t[i])

is_valid(t) ==
    IF \E i \in 1..Len(t) : ~is_valid_byte(t[i])
    THEN FALSE
    ELSE is_reserved_bit_valid(t)

\* Results of the two ChunkType constructors.
TypeNone == [tag |-> "None", kind |-> "", bytes |-> << >>]

TypeOk(t) == [tag |-> "Ok", kind |-> "", bytes |-> t]

TypeErr(k) == [tag |-> "Err", kind |-> k, bytes |-> << >>]

\* impl TryFrom<[u8; 4]> for ChunkType
chunk_type_try_from(v) == TypeOk(<< v[1], v[2], v[3], v[4] >>)

\* from_str that checks the length only
from_str_length_only(str) ==
    IF Len(str) # 4
    THEN TypeErr("InvalidFormat")
    ELSE TypeOk(<< str[1], str[2], str[3], str[4] >>)

\* impl FromStr for ChunkType; a &str is its UTF-8 bytes
from_str(str) ==
    IF Len(str) # 4
    THEN TypeErr("InvalidFormat")
    ELSE IF ~(\A i \in 1..Len(str) : is_valid_byte(str[i]))
         THEN TypeErr("InvalidFormat")
         ELSE TypeOk(<< str[1], str[2], str[3], str[4] >>)

(***************************************************************************)
(* Chunk: a ChunkType and an owned payload.                                *)
(***************************************************************************)
DATA_LENGTH_SIZE == 4

CHUNK_TYPE_SIZE == 4

CRC_SIZE == 4

METADATA_SIZE == DATA_LENGTH_SIZE + CHUNK_TYPE_SIZE + CRC_SIZE

ChunkNone == [tag |-> "None", chunk_type |-> << >>, data |-> << >>]

new(chunk_type, data) == [tag |-> "Some", chunk_type |-> chunk_type, data |-> data]

length(c) == Len(c.data)

\* a crc over the payload alone
crc_data_only(c) == checksum(c.data)

crc(c) == checksum(bytes(c.chunk_type) \o c.data)

\* as_bytes with the length field byte-swapped
as_bytes_le_length(c) ==
    to_le_bytes(as_u32(Len(c.data))) \o bytes(c.chunk_type) \o c.data
        \o to_be_bytes(crc(c))

as_bytes(c) ==
    LET data_length == as_u32(Len(c.data))
    IN  to_be_bytes(data_length) \o bytes(c.chunk_type) \o c.data
            \o to_be_bytes(crc(c))

\* slice::split_at: panics when mid > len
split_at(v, mid) ==
    IF mid > Len(v)
    THEN [ok |-> FALSE, left |-> << >>, right |-> << >>]
    ELSE [ok |-> TRUE, left |-> SubSeq(v, 1, mid), right |-> SubSeq(v, mid + 1, Len(v))]

\* split_at at a u32 widened to usize; every modelled buffer is shorter than 2^16
split_at_u32(v, u) ==
    IF u[1] # 0
    THEN [ok |-> FALSE, left |-> << >>, right |-> << >>]
    ELSE split_at(v, u[2])

\* Outcomes of Chunk::try_from: Ok(chunk), Err(error) or a panic.
ZeroU32 == << 0, 0 >>

DecodeNone ==
    [tag |-> "None", kind |-> "", chunk_type |-> << >>, data |-> << >>,
     expected |-> ZeroU32, actual |-> ZeroU32]

DecodeOk(c) ==
    [tag |-> "Ok", kind |-> "", chunk_type |-> c.chunk_type, data |-> c.data,
     expected |-> ZeroU32, actual |-> ZeroU32]

DecodeErr(k, e, a) ==
    [tag |-> "Err", kind |-> k, chunk_type |-> << >>, data |-> << >>,
     expected |-> e, actual |-> a]

DecodePanic ==
    [tag |-> "Panic", kind |-> "", chunk_type |-> << >>, data |-> << >>,
     expected |-> ZeroU32, actual |-> ZeroU32]

\* the payload and checksum steps, with the checksum taken from the buffer's end
try_from_body_crc_at_end(chunk_type, data_length, v) ==
    LET sp3 == split_at_u32(v, data_length)
    IN  IF ~sp3.ok THEN DecodePanic
        ELSE IF ~split_at(sp3.right, CRC_SIZE).ok THEN DecodePanic
             ELSE LET n == new(chunk_type, sp3.left)
                      actual_crc == crc(n)
                      expected_crc == from_be_bytes(SubSeq(v, Len(v) - 3, Len(v)))
                  IN  IF actual_crc # expected_crc
                      THEN DecodeErr("ChecksumMismatch", expected_crc, actual_crc)
                      ELSE DecodeOk(n)

\* try_from after the type check: split off the payload and the checksum,
\* recompute the checksum and compare
try_from_body(chunk_type, data_length, v) ==
    LET sp3 == split_at_u32(v, data_length)
    IN  IF ~sp3.ok THEN DecodePanic
        ELSE LET sp4 == split_at(sp3.right, CRC_SIZE)
             IN  IF ~sp4.ok THEN DecodePanic
                 ELSE LET n == new(chunk_type, sp3.left)
                          actual_crc == crc(n)
                          expected_crc == from_be_bytes(sp4.left)
                      IN  IF actual_crc # expected_crc
                          THEN DecodeErr("ChecksumMismatch", expected_crc, actual_crc)
                          ELSE DecodeOk(n)

\* try_from without the is_valid check
try_from_unchecked_type(v) ==
    LET sp1 == split_at(v, DATA_LENGTH_SIZE)
    IN  IF ~sp1.ok THEN DecodePanic
        ELSE LET sp2 == split_at(sp1.right, CHUNK_TYPE_SIZE)
             IN  IF ~sp2.ok THEN DecodePanic
                 ELSE try_from_body(chunk_type_try_from(sp2.left).bytes,
                                    from_be_bytes(sp1.left), sp2.right)

\* impl TryFrom<&[u8]> for Chunk
try_from(v) ==
    LET sp1 == split_at(v, DATA_LENGTH_SIZE)
    IN  IF ~sp1.ok THEN DecodePanic
        ELSE LET data_length == from_be_bytes(sp1.left)
                 sp2 == split_at(sp1.right, CHUNK_TYPE_SIZE)
             IN  IF ~sp2.ok THEN DecodePanic
                 ELSE LET chunk_type == chunk_type_try_from(sp2.left).bytes
                      IN  IF ~is_valid(chunk_type)
                          THEN DecodeErr("InvalidChunkType", ZeroU32, ZeroU32)
                          ELSE try_from_body(chunk_type, data_length, sp2.right)

(***************************************************************************)
(* Inputs.  The literal vectors are those of the repository's tests.       *)
(***************************************************************************)
SeqsUpTo(S, n) == UNION { [1..k -> S] : k \in 0..n }

RuSt == << 82, 117, 83, 116 >>

Rust == << 82, 117, 115, 116 >>

Ru1t == << 82, 117, 49, 116 >>

\* the type code of the ChunkType doc comment
bLOb == << 98, 76, 79, 98 >>

\* "This is where your secret message will be!"
SecretMessage ==
    << 84, 104, 105, 115, 32, 105, 115, 32, 119, 104, 101, 114, 101, 32, 121,
       111, 117, 114, 32, 115, 101, 99, 114, 101, 116, 32, 109, 101, 115, 115,
       97, 103, 101, 32, 119, 105, 108, 108, 32, 98, 101, 33 >>

\* 2882656334 and 2882656333 as u32
TestCrc == << 43985, 55374 >>

TestBadCrc == << 43985, 55373 >>

\* the characters 'S', 's', '1' and U+00E9, each as its UTF-8 bytes
StrChars == { << 83 >>, << 115 >>, << 49 >>, << 195, 169 >> }

\* the UTF-8 bytes of a sequence of characters
RECURSIVE Utf8(_)
Utf8(chars) == IF chars = << >> THEN << >> ELSE Head(chars) \o Utf8(Tail(chars))

\* strings of up to MaxStrLen characters, and those of the tests
Strings == { Utf8(cs) : cs \in SeqsUpTo(StrChars, MaxStrLen) } \cup { RuSt, Rust, Ru1t }

\* '@', 'R', 't', '{': below 'A', upper case, lower case, above 'z'
RawBytes == { 64, 82, 116, 123 }

RawTypes == [1..4 -> RawBytes] \cup { RuSt, bLOb }

DataBytes == { 0, 255 }

Payloads == SeqsUpTo(DataBytes, MaxDataLen) \cup { SecretMessage }

\* the u32 just below u (wrapping)
PredU32(u) ==
    IF u[2] > 0 THEN << u[1], u[2] - 1 >>
    ELSE << (u[1] + 65535) % 65536, 65535 >>

LengthFields ==
    { as_u32(n) : n \in 0..(MaxDataLen + 1) } \cup { << 0, 256 >>, << 65535, 65535 >> }

BufferTypes == { RuSt, Rust, Ru1t, bLOb }

\* length field, type, payload, checksum field and trailing bytes, where the
\* length field may disagree with the payload and the checksum field is the
\* right one or the one just below it
RecordsOf(t, d) ==
    { to_be_bytes(l) \o t \o d \o to_be_bytes(c) \o tr :
        l \in LengthFields \cup { as_u32(Len(d)) },
        c \in { checksum(t \o d), PredU32(checksum(t \o d)) },
        tr \in SeqsUpTo(DataBytes, MaxTrailing) }

\* the buffers of test_valid_chunk_from_bytes and test_invalid_chunk_from_bytes
TestRecords ==
    { to_be_bytes(as_u32(Len(SecretMessage))) \o RuSt \o SecretMessage \o to_be_bytes(c) :
        c \in { TestCrc, TestBadCrc } }

Records ==
    UNION { RecordsOf(t, d) : t \in BufferTypes, d \in SeqsUpTo(DataBytes, MaxDataLen) }
        \cup TestRecords

\* every record and every truncation of it
Buffers == UNION { { SubSeq(b, 1, n) : n \in 0..Len(b) } : b \in Records }

(***************************************************************************)
(* The caller: it builds a ChunkType from text or from raw bytes, a Chunk  *)
(* from the type and a payload, encodes it and decodes the bytes again; or *)
(* it decodes a buffer it was handed and encodes the decoded chunk.        *)
(***************************************************************************)
Init ==
    /\ type_result = TypeNone
    /\ chunk = ChunkNone
    /\ measured = [length |-> 0, crc |-> ZeroU32]
    /\ encoded = << >>
    /\ decoded = DecodeNone
    /\ \/ pc = "from_str" /\ s \in Strings /\ raw = << >> /\ value = << >>
       \/ pc = "from_bytes" /\ s = << >> /\ raw \in RawTypes /\ value = << >>
       \/ pc = "from_buffer" /\ s = << >> /\ raw = << >> /\ value \in Buffers

FromStr ==
    /\ pc = "from_str"
    /\ type_result' = from_str(s)
    /\ pc' = "typed"
    /\ UNCHANGED << s, raw, chunk, measured, encoded, value, decoded >>

ChunkTypeTryFrom ==
    /\ pc = "from_bytes"
    /\ type_result' = chunk_type_try_from(raw)
    /\ pc' = "typed"
    /\ UNCHANGED << s, raw, chunk, measured, encoded, value, decoded >>

New ==
    /\ pc = "typed"
    /\ type_result.tag = "Ok"
    /\ \E data \in Payloads : chunk' = new(type_result.bytes, data)
    /\ pc' = "built"
    /\ UNCHANGED << s, raw, type_result, measured, encoded, value, decoded >>

\* length() and crc() of the chunk built by New
LengthAndCrc ==
    /\ pc = "built"
    /\ measured' = [length |-> length(chunk), crc |-> crc(chunk)]
    /\ pc' = "measured"
    /\ UNCHANGED << s, raw, type_result, chunk, encoded, value, decoded >>

\* as_bytes of the chunk built by New
AsBytes ==
    /\ pc = "measured"
    /\ encoded' = as_bytes(chunk)
    /\ pc' = "encoded"
    /\ UNCHANGED << s, raw, type_result, chunk, measured, value, decoded >>

\* try_from of the buffer handed in, or of the bytes as_bytes returned
TryFrom ==
    /\ pc \in { "from_buffer", "encoded" }
    /\ LET v == IF pc = "encoded" THEN encoded ELSE value
       IN  value' = v /\ decoded' = try_from(v)
    /\ pc' = "decoded"
    /\ UNCHANGED << s, raw, type_result, chunk, measured, encoded >>

\* as_bytes of the chunk try_from returned
ReEncode ==
    /\ pc = "decoded"
    /\ decoded.tag = "Ok"
    /\ encoded' = as_bytes(new(decoded.chunk_type, decoded.data))
    /\ pc' = "reencoded"
    /\ UNCHANGED << s, raw, type_result, chunk, measured, value, decoded >>

Next ==
    FromStr \/ ChunkTypeTryFrom \/ New \/ LengthAndCrc \/ AsBytes \/ TryFrom \/ ReEncode

Spec == Init /\ [][Next]_vars

(***************************************************************************)
(* Properties.  The fields of a buffer are read here by plain arithmetic.  *)
(***************************************************************************)
IsLetter(b) == (65 <= b /\ b <= 90) \/ (97 <= b /\ b <= 122)

IsUpper(b) == 65 <= b /\ b <= 90

Bit5(b) == (b \div 32) % 2

\* the big-endian u32 at offset off of v
U32At(v, off) == << v[off + 1] * 256 + v[off + 2], v[off + 3] * 256 + v[off + 4] >>

\* v holds at least the 12 + L bytes its length field L announces
HasWholeRecord(v) ==
    /\ Len(v) >= METADATA_SIZE
    /\ U32At(v, 0)[1] = 0
    /\ Len(v) >= 12 + U32At(v, 0)[2]

\* the announced payload length of a whole record
FieldL(v) == U32At(v, 0)[2]

TypeField(v) == SubSeq(v, 5, 8)

\* the chunk came out of New and its as_bytes went through try_from
RoundTripped == pc = "decoded" /\ chunk.tag = "Some"

\* C1: for a valid type t and a payload p, try_from(as_bytes(new(t, p)))
\* succeeds and returns a chunk with the type bytes and the payload of new(t, p).
C1_RoundTrip ==
    (RoundTripped /\ is_valid(chunk.chunk_type))
        => /\ value = encoded
           /\ decoded.tag = "Ok"
           /\ decoded.chunk_type = chunk.chunk_type
           /\ decoded.data = chunk.data

C1_Witness ==
    /\ RoundTripped
    /\ is_valid(chunk.chunk_type)
    /\ Len(chunk.data) = 2
    /\ decoded.tag = "Ok"

\* try_from has run on value
Decoded == pc \in { "decoded", "reencoded" }

\* value ends before the 4 + 4 + L + 4 bytes of its record
IsShort(v) ==
    \/ Len(v) < METADATA_SIZE
    \/ U32At(v, 0)[1] # 0
    \/ Len(v) < 12 + U32At(v, 0)[2]

\* C2 (as claimed): decoding a buffer shorter than 4 + 4 + L + 4 bytes returns
\* a failure, never a panic, and that failure is TruncatedInput when the type
\* field is absent or valid.
C2_ShortBufferIsAnError ==
    (Decoded /\ IsShort(value))
        => /\ decoded.tag = "Err"
           /\ (Len(value) < 8 \/ is_valid(TypeField(value)))
                  => decoded.kind = "TruncatedInput"

\* C3: on a buffer of at least 12 + L bytes with a valid type field, try_from
\* fails with ChecksumMismatch exactly when the big-endian value at offset
\* 8 + L differs from the CRC-32 of bytes [4, 8 + L); the error carries the
\* embedded value as expected and the recomputed one as actual; when the two
\* are equal try_from succeeds.
C3_ChecksumMismatch ==
    (Decoded /\ HasWholeRecord(value) /\ is_valid(TypeField(value)))
        => LET L == FieldL(value)
               embedded == U32At(value, 8 + L)
               recomputed == checksum(SubSeq(value, 5, 8 + L))
           IN  /\ (decoded.tag = "Err" /\ decoded.kind = "ChecksumMismatch")
                      <=> embedded # recomputed
               /\ embedded # recomputed
                      => decoded.expected = embedded /\ decoded.actual = recomputed
               /\ embedded = recomputed => decoded.tag = "Ok"

C3_Witness ==
    /\ Decoded
    /\ HasWholeRecord(value)
    /\ is_valid(TypeField(value))
    /\ FieldL(value) = 2
    /\ decoded.kind = "ChecksumMismatch"
    /\ decoded.expected # decoded.actual

\* C4: on a buffer of at least 8 bytes try_from fails with InvalidChunkType
\* exactly when one of bytes 4..8 is not an ASCII letter or the byte at type
\* index 2 is not upper case, that is when is_valid() is false, whatever the
\* length field, the payload and the checksum field are (or whether they are
\* there at all).
C4_InvalidChunkType ==
    (Decoded /\ Len(value) >= 8)
        => LET rejected == decoded.tag = "Err" /\ decoded.kind = "InvalidChunkType"
               bad == \/ \E i \in 5..8 : ~IsLetter(value[i])
                      \/ ~IsUpper(value[7])
           IN  /\ rejected <=> bad
               /\ bad <=> ~is_valid(TypeField(value))

C4_Witness ==
    /\ Decoded
    /\ Len(value) = 8
    /\ TypeField(value) = Rust
    /\ decoded.kind = "InvalidChunkType"

\* C5: as_bytes of the chunk New built from type t and payload p is 12 + L
\* bytes, L = length(): the big-endian L, then t.bytes(), then p, then the
\* big-endian crc().
C5_Layout ==
    (pc = "encoded")
        => LET L == measured.length
           IN  /\ L = Len(chunk.data)
               /\ Len(encoded) = 12 + L
               /\ encoded[1] * 16777216 + encoded[2] * 65536
                      + encoded[3] * 256 + encoded[4] = L
               /\ SubSeq(encoded, 5, 8) = bytes(chunk.chunk_type)
               /\ SubSeq(encoded, 9, 8 + L) = chunk.data
               /\ U32At(encoded, 8 + L) = measured.crc

C5_Witness ==
    /\ pc = "encoded"
    /\ ~is_valid(chunk.chunk_type)
    /\ Len(chunk.data) = 2
    /\ Len(encoded) = 14

\* from_str has run on s
CalledFromStr == type_result.tag # "None" /\ Len(raw) = 0

\* C6: from_str fails with InvalidFormat iff the string is not 4 long or has a
\* character that is no ASCII letter; on success bytes() is the string's four
\* character codes in order; "Rust" is accepted though is_valid() is false
\* for it, and "Ru1t" is rejected.
C6_FromStr ==
    CalledFromStr
        => LET bad == Len(s) # 4 \/ \E i \in 1..Len(s) : ~IsLetter(s[i])
           IN  /\ (type_result.tag = "Err" /\ type_result.kind = "InvalidFormat") <=> bad
               /\ ~bad => type_result.tag = "Ok" /\ bytes(type_result.bytes) = s
               /\ s = Rust => type_result.tag = "Ok" /\ ~is_valid(type_result.bytes)
               /\ s = Ru1t => type_result.tag = "Err"

C6_Witness ==
    /\ CalledFromStr
    /\ s = Rust
    /\ type_result.tag = "Ok"
    /\ ~is_valid(type_result.bytes)

\* C7 (as claimed): for a ChunkType built from 4 raw bytes each flag is bit 5
\* of its byte: is_critical, is_public and is_reserved_bit_valid iff the bit
\* is clear in bytes 0, 1 and 2, is_safe_to_copy iff it is set in byte 3.
C7_FlagsAreBit5 ==
    (type_result.tag = "Ok" /\ Len(raw) = 4)
        => LET t == type_result.bytes
           IN  /\ t = raw
               /\ is_critical(t) <=> Bit5(t[1]) = 0
               /\ is_public(t) <=> Bit5(t[2]) = 0
               /\ is_reserved_bit_valid(t) <=> Bit5(t[3]) = 0
               /\ is_safe_to_copy(t) <=> Bit5(t[4]) = 1

\* C8: try_from of a buffer of at least 12 + L bytes gives what try_from of
\* its first 12 + L bytes gives.
C8_TrailingBytesIgnored ==
    (Decoded /\ HasWholeRecord(value))
        => decoded = try_from(SubSeq(value, 1, 12 + FieldL(value)))

C8_Witness ==
    /\ Decoded
    /\ HasWholeRecord(value)
    /\ Len(value) > 12 + FieldL(value)
    /\ value[Len(value)] = 255
    /\ decoded.tag = "Ok"

\* length() and crc() of the chunk of test_new_chunk have been taken
KnownVectorMeasured ==
    /\ pc = "measured"
    /\ chunk.chunk_type = RuSt
    /\ chunk.data = SecretMessage

\* C9 (as claimed): the chunk of type "RuSt" with the payload "This is where
\* your secret message will be!" has crc() 2882656334 and length() 44.
C9_KnownVectorLength44 ==
    KnownVectorMeasured
        => measured.crc = << 43985, 55374 >> /\ measured.length = 44

\* C9 (amended): that chunk has crc() 2882656334 (0xABD1D84E) and length() 42.
C9_KnownVector ==
    KnownVectorMeasured
        => measured.crc = << 43985, 55374 >> /\ measured.length = 42

C9_Witness == KnownVectorMeasured /\ s = RuSt /\ type_result.tag = "Ok"

\* C10: when try_from(b) returns a chunk c, c's type is valid, c.length() is
\* the big-endian length L in b[0..4], and c.as_bytes() is the first 12 + L
\* bytes of b.
C10_DecodePostcondition ==
    (Decoded /\ decoded.tag = "Ok")
        => LET c == new(decoded.chunk_type, decoded.data)
           IN  /\ is_valid(c.chunk_type)
               /\ HasWholeRecord(value)
               /\ length(c) = FieldL(value)
               /\ pc = "reencoded"
                      => encoded = SubSeq(value, 1, 12 + FieldL(value))

C10_Witness ==
    /\ pc = "reencoded"
    /\ chunk.tag = "None"
    /\ Len(decoded.data) = 2
    /\ Len(value) > Len(encoded)

====
